---- MODULE Spec2Model ----
(***************************************************************************)
(* The reconnecting message relay of AI Box, in its two implementations:   *)
(*                                                                         *)
(*   client : class WebSocketManager of the browser                        *)
(*            (services/frontend/public/js/main.js, lines 1073-1389)       *)
(*   edge   : class WebSocketManager of the frontend service, the relay    *)
(*            towards the gateway (unnamed/part_004, lines 8-218)          *)
(*                                                                         *)
(* and the event emitter of the client (on / off / emit and the dispatch   *)
(* of inbound messages, main.js lines 1135-1143, 1171-1200, 1313-1346),    *)
(* whose fields are disjoint from those of the connection.                 *)
(*                                                                         *)
(* Three smaller parts stand next to the relays: the message ids stamped   *)
(* by the edge relay (unnamed/part_004, line 101), the chat that waits for *)
(* the reply to the message it sent (public/js/chat.js, lines 99-179) and  *)
(* the agent tasks with their history (main.js, lines 483-822).            *)
(*                                                                         *)
(* Each relay is a record holding the fields of the object plus the state  *)
(* of the transports (WebSocket objects) it created and of the timers it   *)
(* started.  Every method and every event handler is an operator from      *)
(* relay record to relay record, so that handlers compose as they do in    *)
(* the code (onerror followed by onclose, send calling connect, ...).      *)
(* One action is one task of the single-threaded event loop.               *)
(***************************************************************************)
EXTENDS Integers, Sequences, FiniteSets, TLC

VARIABLES
    relay,      \* the part a behaviour follows: the relays run in different processes
                \* and share no state; "emitter" is the dispatch of the client's inbound
                \* messages, which shares no field with its connection
    client,     \* the WebSocketManager object of the browser
    emitter,    \* its eventHandlers map and what the last task dispatched
    edge,       \* the WebSocketManager object of the frontend service
    ids,        \* the message ids proxyMessage() stamps, with the clock they read
    chat,       \* the ChatManager object of the browser, with the connection it sends on
    agents,     \* the AgentsManager object of the browser, with the API calls it awaits
    op          \* the task the browser's event loop ran last: its name, the number
                \* of messages it handed to a transport, whether it created a transport

vars == <<relay, client, emitter, edge, ids, chat, agents, op>>

(***************************************************************************)
(* Bounds of the model.                                                    *)
(***************************************************************************)
MaxTransports == 2      \* transport objects of the client relay alive at the same time
MaxGateways == 1        \* transport objects of the edge relay alive at the same time
MaxSends == 2           \* send() calls on the client relay
MaxTimers == 2          \* reconnect timers pending at the same time, per relay
MaxAttempts == 11       \* cap of the client's attempt counter (unbounded in the code)
MaxRequests == 2        \* proxyMessage() calls on the edge relay
MaxSessions == 2        \* browser sessions connected to the edge process at the same time
MaxHandlers == 2        \* handler functions the application registers with on()
MaxSubscriptions == 3   \* subscriptions held by the emitter at the same time
MaxClock == 2           \* milliseconds Date.now() advances while ids are stamped
MaxRandom == 2          \* values of Math.random().toString(36).substr(2, 9)
MaxPending == 3         \* requests waiting for their reply at the same time
MaxChats == 2           \* sendMessage() calls on the chat
MaxTasks == 2           \* executeAgentTask() calls on the agents manager

(***************************************************************************)
(* Program constants.                                                      *)
(***************************************************************************)
maxReconnectAttempts == 10
reconnectInterval == 5000             \* ms
maxReconnectDelay == 30000            \* ms, the cap in Math.min(..., 30000)
NORMAL_CLOSURE == 1000                \* the code of disconnect(), the one onclose tests

NoTransport == 0                      \* this.ws = null
Transports == 1..MaxTransports        \* transport objects of the client relay
Gateways == 1..MaxGateways            \* transport objects of the edge relay

\* event.code of a close event: a clean close carries the peer's code (normal
\* closure, going away), a failed connection carries 1006.
CloseCodes == [clean |-> {NORMAL_CLOSURE, 1001}, failed |-> 1006]

(* readyState of a transport.  NONE: slot of the pool not in use.          *)
(* ABORTING: close() was called before the handshake completed; the API    *)
(* reports CLOSING, and the connection can only end as a failure.          *)
ReadyStates == {"NONE", "CONNECTING", "OPEN", "CLOSING", "ABORTING", "CLOSED"}
Live == {"CONNECTING", "OPEN", "CLOSING", "ABORTING"}

SetMin(S) == CHOOSE x \in S : \A y \in S : x <= y

(***************************************************************************)
(* Client relay: WebSocketManager of main.js.                              *)
(***************************************************************************)
\* 'session_' + Date.now() + '_' + Math.random()...: an opaque value, which no
\* code of the relay reads but send().
generateSessionId == 1

ClientInit ==
    [ ws                |-> NoTransport,
      sessionId         |-> generateSessionId,
      carried           |-> <<>>,    \* sessionId put on the k-th message by send()
      readyState        |-> [t \in Transports |-> "NONE"],
      reconnectAttempts |-> 0,
      isConnecting      |-> FALSE,
      messageQueue      |-> <<>>,
      reconnectTimers   |-> 0,       \* setTimeout callbacks of scheduleReconnect not yet run
      transmitted       |-> <<>>,    \* messages handed to ws.send(), in order
      sendCalls         |-> 0,       \* number of send() calls so far; the k-th message is k
      delay             |-> 0,       \* ms scheduleReconnect() computed when it gave the
                                     \* counter its value; 0: the counter was set otherwise
      exhaustedNotified |-> FALSE,   \* the last task showed 'could not restore the connection'
      shutdown          |-> FALSE,   \* disconnect() was called and no connect()/send() since
      forced            |-> FALSE,   \* disconnect() set the counter and no open since
      outOfBounds       |-> FALSE ]  \* a bound of the model was hit inside a handler

\* this.ws && this.ws.readyState === WebSocket.OPEN
isConnected(s) == s.ws # NoTransport /\ s.readyState[s.ws] = "OPEN"

\* A closed transport the relay does not reference any more is garbage.
FreeTransports(s) == {t \in DOMAIN s.readyState : s.readyState[t] \in {"NONE", "CLOSED"}}

Collect(s) ==
    [s EXCEPT !.readyState =
        [t \in Transports |->
            IF s.readyState[t] = "CLOSED" /\ s.ws # t THEN "NONE" ELSE s.readyState[t]]]

\* connect() resetting the attempt counter.
connectResetting(s) ==
    IF s.isConnecting \/ isConnected(s) THEN s
    ELSE IF FreeTransports(s) = {} THEN [s EXCEPT !.outOfBounds = TRUE]
    ELSE LET t == SetMin(FreeTransports(s)) IN
         [s EXCEPT !.isConnecting = TRUE,
                   !.reconnectAttempts = 0,
                   !.delay = 0,
                   !.ws = t,
                   !.readyState = [u \in Transports |->
                        IF u = t THEN "CONNECTING"
                        ELSE IF s.readyState[u] = "CLOSED" THEN "NONE"
                        ELSE s.readyState[u]]]

connect(s) ==
    IF s.isConnecting \/ isConnected(s) THEN s
    ELSE IF FreeTransports(s) = {} THEN [s EXCEPT !.outOfBounds = TRUE]
    ELSE LET t == SetMin(FreeTransports(s)) IN
         [s EXCEPT !.isConnecting = TRUE,
                   !.ws = t,
                   !.readyState = [u \in Transports |->
                        IF u = t THEN "CONNECTING"
                        ELSE IF s.readyState[u] = "CLOSED" THEN "NONE"
                        ELSE s.readyState[u]]]

\* flushMessageQueue() putting the message it could not send back at the tail.
RECURSIVE flushMessageQueuePush(_)
flushMessageQueuePush(s) ==
    IF Len(s.messageQueue) = 0 THEN s
    ELSE LET message == Head(s.messageQueue)
             s1 == [s EXCEPT !.messageQueue = Tail(@)]
         IN IF isConnected(s1)
            THEN flushMessageQueuePush([s1 EXCEPT !.transmitted = Append(@, message)])
            ELSE [s1 EXCEPT !.messageQueue = Append(@, message)]

\* flushMessageQueue() without the unshift: the message taken from the queue is
\* dropped when the connection is not OPEN.
RECURSIVE flushMessageQueueDropping(_)
flushMessageQueueDropping(s) ==
    IF Len(s.messageQueue) = 0 THEN s
    ELSE LET message == Head(s.messageQueue)
             s1 == [s EXCEPT !.messageQueue = Tail(@)]
         IN IF isConnected(s1)
            THEN flushMessageQueueDropping([s1 EXCEPT !.transmitted = Append(@, message)])
            ELSE s1

RECURSIVE flushMessageQueue(_)
flushMessageQueue(s) ==
    IF Len(s.messageQueue) = 0 THEN s
    ELSE LET message == Head(s.messageQueue)
             s1 == [s EXCEPT !.messageQueue = Tail(@)]
         IN IF isConnected(s1)
            THEN flushMessageQueue([s1 EXCEPT !.transmitted = Append(@, message)])
            ELSE [s1 EXCEPT !.messageQueue = <<message>> \o @]

\* The delay without the cap.
reconnectDelayUncapped(n) == reconnectInterval * n

\* Math.min(this.reconnectInterval * this.reconnectAttempts, 30000)
reconnectDelay(n) ==
    IF reconnectInterval * n < maxReconnectDelay
    THEN reconnectInterval * n
    ELSE maxReconnectDelay

scheduleReconnect(s) ==
    IF s.reconnectTimers >= MaxTimers \/ s.reconnectAttempts >= MaxAttempts
    THEN [s EXCEPT !.outOfBounds = TRUE]
    ELSE [s EXCEPT !.reconnectAttempts = @ + 1,
                   !.reconnectTimers = @ + 1,
                   !.delay = reconnectDelay(s.reconnectAttempts + 1)]

\* The timer callback taking a new session id for the new connection.
reconnectTimeoutNewSession(s) ==
    LET s1 == [s EXCEPT !.reconnectTimers = @ - 1, !.sessionId = generateSessionId + 1] IN
    IF s1.reconnectAttempts <= maxReconnectAttempts
    THEN connect(s1)
    ELSE [s1 EXCEPT !.exhaustedNotified = TRUE]

\* The callback scheduleReconnect hands to setTimeout.
reconnectTimeout(s) ==
    LET s1 == [s EXCEPT !.reconnectTimers = @ - 1] IN
    IF s1.reconnectAttempts <= maxReconnectAttempts
    THEN connect(s1)
    ELSE [s1 EXCEPT !.exhaustedNotified = TRUE]

handleConnectionError(s) == scheduleReconnect([s EXCEPT !.isConnecting = FALSE])

\* ws.onopen leaving the attempt counter as it is.
onopenKeepingCounter(s) ==
    flushMessageQueue([s EXCEPT !.isConnecting = FALSE, !.forced = FALSE])

onopen(s) ==
    flushMessageQueue([s EXCEPT !.isConnecting = FALSE, !.reconnectAttempts = 0,
                                !.delay = 0, !.forced = FALSE])

onclose(s, code) ==
    LET s1 == [s EXCEPT !.isConnecting = FALSE] IN
    IF code # NORMAL_CLOSURE /\ s1.reconnectAttempts < maxReconnectAttempts
    THEN scheduleReconnect(s1)
    ELSE s1

onerror(s) == handleConnectionError(s)

\* send() putting the message at the head of the queue.
sendUnshift(s, m) ==
    LET s0 == [s EXCEPT !.sendCalls = @ + 1, !.carried = Append(@, s.sessionId)] IN
    IF isConnected(s0)
    THEN [s0 EXCEPT !.transmitted = Append(@, m)]
    ELSE LET s1 == [s0 EXCEPT !.messageQueue = <<m>> \o @] IN
         IF ~s1.isConnecting THEN connect(s1) ELSE s1

send(s, m) ==
    LET s0 == [s EXCEPT !.sendCalls = @ + 1, !.carried = Append(@, s.sessionId)] IN
    IF isConnected(s0)
    THEN [s0 EXCEPT !.transmitted = Append(@, m)]
    ELSE LET s1 == [s0 EXCEPT !.messageQueue = Append(@, m)] IN
         IF ~s1.isConnecting THEN connect(s1) ELSE s1

\* WebSocket.close() seen from the transport.
closeCalled(rs) ==
    CASE rs = "CONNECTING" -> "ABORTING"
      [] rs = "OPEN" -> "CLOSING"
      [] OTHER -> rs

disconnect(s) ==
    IF s.ws # NoTransport
    THEN [s EXCEPT !.reconnectAttempts = maxReconnectAttempts,
                   !.delay = 0,
                   !.readyState[s.ws] = closeCalled(@),
                   !.ws = NoTransport,
                   !.forced = TRUE]
    ELSE s

(***************************************************************************)
(* Tasks of the browser's event loop.                                      *)
(***************************************************************************)
Created(old, new) ==
    \E t \in DOMAIN new.readyState :
        new.readyState[t] = "CONNECTING" /\ old.readyState[t] # "CONNECTING"

Task(name, old, new) ==
    [ name    |-> name,
      sent    |-> Len(new.transmitted) - Len(old.transmitted),
      created |-> Created(old, new) ]

\* The relay as a task finds it: what the previous task reported is gone.
ClientNow == [client EXCEPT !.exhaustedNotified = FALSE]

ClientStep(s, name) ==
    /\ relay = "client"
    /\ ~s.outOfBounds
    /\ client' = Collect(s)
    /\ op' = Task(name, client, s)
    /\ UNCHANGED <<relay, emitter, edge, ids, chat, agents>>

\* The application calls connect() (main.js:277).
Connect ==
    ClientStep([connect(ClientNow) EXCEPT !.shutdown = FALSE], "connect")

Send ==
    /\ client.sendCalls < MaxSends
    /\ ClientStep([send(ClientNow, client.sendCalls + 1) EXCEPT !.shutdown = FALSE], "send")

Disconnect ==
    ClientStep([disconnect(ClientNow) EXCEPT !.shutdown = TRUE], "disconnect")

\* The handshake of transport t completes.
WsOpen(t) ==
    /\ client.readyState[t] = "CONNECTING"
    /\ ClientStep(onopen([ClientNow EXCEPT !.readyState[t] = "OPEN"]), "onopen")

\* The peer starts the closing handshake: readyState becomes CLOSING, no event yet.
WsClosing(t) ==
    /\ client.readyState[t] = "OPEN"
    /\ ClientStep([ClientNow EXCEPT !.readyState[t] = "CLOSING"], "closing")

\* The connection of t ends cleanly: one close event.
WsClose(t, code) ==
    /\ client.readyState[t] \in {"OPEN", "CLOSING"}
    /\ ClientStep(onclose([ClientNow EXCEPT !.readyState[t] = "CLOSED"], code), "onclose")

\* The connection of t fails: an error event, then a close event (1006), in one task.
WsFail(t) ==
    /\ client.readyState[t] \in Live
    /\ ClientStep(onclose(onerror([ClientNow EXCEPT !.readyState[t] = "CLOSED"]),
                          CloseCodes.failed), "onerror")

ReconnectTimeout ==
    /\ client.reconnectTimers > 0
    /\ ClientStep(reconnectTimeout(ClientNow), "timer")

ClientNext ==
    \/ Connect
    \/ Send
    \/ Disconnect
    \/ \E t \in Transports : WsOpen(t)
    \/ \E t \in Transports : WsClosing(t)
    \/ \E t \in Transports, code \in CloseCodes.clean : WsClose(t, code)
    \/ \E t \in Transports : WsFail(t)
    \/ ReconnectTimeout

(***************************************************************************)
(* Edge relay: WebSocketManager of the frontend service (part_004).        *)
(* A correlated request is one proxyMessage() call; the k-th call is       *)
(* request k and its frontend_message_id is k.                             *)
(***************************************************************************)
Requests == 1..MaxRequests
MessageIds == {0} \cup Requests        \* frontend_message_id of an inbound message; 0: none
Sessions == 1..MaxSessions            \* browser sessions (wss clients)

EdgeInit ==
    [ gatewayWs         |-> NoTransport,
      readyState        |-> [t \in Gateways |-> "NONE"],
      reconnectAttempts |-> 0,
      isConnecting      |-> FALSE,
      messageQueue      |-> <<>>,
      reconnectTimers   |-> 0,       \* setTimeout callbacks of scheduleReconnect not yet run
      transmitted       |-> <<>>,    \* messages handed to gatewayWs.send(), in order
      calls             |-> 0,       \* number of proxyMessage() calls so far
      sessions          |-> 0,       \* browser-to-edge connections open (wss clients)
      promise           |-> [r \in Requests |-> "none"],     \* the promise proxyMessage returns
      listener          |-> [r \in Requests |-> NoTransport], \* transport carrying responseHandler
      timeout           |-> [r \in Requests |-> FALSE],      \* the 30 s timer is pending
      reply             |-> [r \in Requests |-> 0],  \* id of the message the promise resolved with
      replied           |-> {},      \* deferred requests whose reply has reached the relay
      expired           |-> {},      \* requests whose 30 s timer has run
      deferred          |-> {},      \* requests issued while the connection was not OPEN
      delay             |-> 0,       \* ms scheduleReconnect() computed when it gave the
                                     \* counter its value; 0: the counter was set otherwise
      exhaustedLogged   |-> FALSE,   \* the last task logged 'maximum number of attempts exceeded'
      crashed           |-> FALSE,   \* an exception left a timer callback uncaught
      outOfBounds       |-> FALSE ]

\* this.gatewayWs && this.gatewayWs.readyState === WebSocket.OPEN
edgeIsConnected(s) == s.gatewayWs # NoTransport /\ s.readyState[s.gatewayWs] = "OPEN"

\* A closed transport emits nothing any more: its listeners are dropped with it.
EdgeCollect(s) ==
    [s EXCEPT !.readyState =
                [t \in Gateways |->
                    IF s.readyState[t] = "CLOSED" /\ s.gatewayWs # t
                    THEN "NONE" ELSE s.readyState[t]],
              !.listener =
                [r \in Requests |->
                    IF s.listener[r] # NoTransport /\ s.readyState[s.listener[r]] = "CLOSED"
                    THEN NoTransport ELSE s.listener[r]]]

connectToGateway(s) ==
    IF s.isConnecting \/ edgeIsConnected(s) THEN s
    ELSE IF FreeTransports(s) = {} THEN [s EXCEPT !.outOfBounds = TRUE]
    ELSE LET t == SetMin(FreeTransports(s)) IN
         [s EXCEPT !.isConnecting = TRUE,
                   !.gatewayWs = t,
                   !.readyState = [u \in Gateways |->
                        IF u = t THEN "CONNECTING"
                        ELSE IF s.readyState[u] = "CLOSED" THEN "NONE"
                        ELSE s.readyState[u]]]

\* scheduleReconnect() allowing one attempt more.
edgeScheduleReconnectOneMore(s) ==
    IF s.reconnectAttempts > maxReconnectAttempts
    THEN [s EXCEPT !.exhaustedLogged = TRUE]
    ELSE IF s.reconnectTimers >= MaxTimers THEN [s EXCEPT !.outOfBounds = TRUE]
    ELSE [s EXCEPT !.reconnectAttempts = @ + 1,
                   !.reconnectTimers = @ + 1,
                   !.delay = reconnectDelay(s.reconnectAttempts + 1)]

edgeScheduleReconnect(s) ==
    IF s.reconnectAttempts >= maxReconnectAttempts
    THEN [s EXCEPT !.exhaustedLogged = TRUE]
    ELSE IF s.reconnectTimers >= MaxTimers THEN [s EXCEPT !.outOfBounds = TRUE]
    ELSE [s EXCEPT !.reconnectAttempts = @ + 1,
                   !.reconnectTimers = @ + 1,
                   !.delay = reconnectDelay(s.reconnectAttempts + 1)]

\* The callback scheduleReconnect hands to setTimeout.
edgeReconnectTimeout(s) == connectToGateway([s EXCEPT !.reconnectTimers = @ - 1])

\* flushMessageQueue() taking the messages from the tail of the queue (pop()).
RECURSIVE edgeFlushMessageQueuePop(_)
edgeFlushMessageQueuePop(s) ==
    IF Len(s.messageQueue) > 0 /\ edgeIsConnected(s)
    THEN edgeFlushMessageQueuePop(
            [s EXCEPT !.messageQueue = SubSeq(@, 1, Len(@) - 1),
                      !.transmitted = Append(@, s.messageQueue[Len(s.messageQueue)])])
    ELSE s

RECURSIVE edgeFlushMessageQueue(_)
edgeFlushMessageQueue(s) ==
    IF Len(s.messageQueue) > 0 /\ edgeIsConnected(s)
    THEN edgeFlushMessageQueue([s EXCEPT !.messageQueue = Tail(@),
                                         !.transmitted = Append(@, Head(s.messageQueue))])
    ELSE s

edgeOnOpen(s) ==
    edgeFlushMessageQueue([s EXCEPT !.isConnecting = FALSE, !.reconnectAttempts = 0,
                                    !.delay = 0])

edgeOnClose(s) == edgeScheduleReconnect([s EXCEPT !.isConnecting = FALSE])

edgeOnError(s) == edgeScheduleReconnect([s EXCEPT !.isConnecting = FALSE])

\* resolve(v) of the promise of request r: the first call settles it, later calls do nothing.
resolve(s, r, v) ==
    IF s.promise[r] = "pending" THEN [s EXCEPT !.promise[r] = v] ELSE s

\* this.gatewayWs.removeListener('message', responseHandler), gatewayWs not null.
removeListener(s, r) ==
    IF s.listener[r] = s.gatewayWs THEN [s EXCEPT !.listener[r] = NoTransport] ELSE s

\* proxyMessage() keeping a queued request pending, with its timer.
proxyMessagePending(s, r) ==
    LET s0 == [s EXCEPT !.calls = @ + 1]
        s1 == IF ~edgeIsConnected(s0) THEN connectToGateway(s0) ELSE s0
    IN IF edgeIsConnected(s1)
       THEN [s1 EXCEPT !.transmitted = Append(@, r),
                       !.listener[r] = s1.gatewayWs,
                       !.timeout[r] = TRUE,
                       !.promise[r] = "pending"]
       ELSE [s1 EXCEPT !.messageQueue = Append(@, r),
                       !.timeout[r] = TRUE,
                       !.promise[r] = "pending",
                       !.deferred = @ \cup {r}]

proxyMessage(s, r) ==
    LET s0 == [s EXCEPT !.calls = @ + 1]
        s1 == IF ~edgeIsConnected(s0) THEN connectToGateway(s0) ELSE s0
    IN IF edgeIsConnected(s1)
       THEN [s1 EXCEPT !.transmitted = Append(@, r),
                       !.listener[r] = s1.gatewayWs,
                       !.timeout[r] = TRUE,
                       !.promise[r] = "pending"]
       ELSE [s1 EXCEPT !.messageQueue = Append(@, r),
                       !.promise[r] = "queued",
                       !.deferred = @ \cup {r}]

\* resolve(response): the promise of request r takes the message that settles it.
resolveResponse(s, r, id) ==
    IF s.promise[r] = "pending"
    THEN [resolve(s, r, "response") EXCEPT !.reply[r] = id]
    ELSE s

\* responseHandler resolving with any message that arrives, whatever its id.
responseHandlerAnyId(s, r, id) ==
    IF s.gatewayWs = NoTransport THEN s
    ELSE resolveResponse(removeListener(s, r), r, id)

\* responseHandler of request r, run for a message whose frontend_message_id is id.
responseHandler(s, r, id) ==
    IF id # r THEN s
    ELSE IF s.gatewayWs = NoTransport THEN s     \* TypeError, caught and logged
    ELSE resolveResponse(removeListener(s, r), r, id)

\* The 'message' event of a transport: the listeners registered on it when the
\* event is emitted run in the order of their registration.
RECURSIVE emitMessage(_, _, _)
emitMessage(s, listeners, id) ==
    IF listeners = {} THEN s
    ELSE LET r == SetMin(listeners) IN
         emitMessage(responseHandler(s, r, id), listeners \ {r}, id)

\* The callback of the 30 s timer of request r.
responseTimeout(s, r) ==
    LET s1 == [s EXCEPT !.timeout[r] = FALSE, !.expired = @ \cup {r}] IN
    IF s1.gatewayWs = NoTransport
    THEN [s1 EXCEPT !.crashed = TRUE]            \* TypeError, uncaught
    ELSE resolve(removeListener(s1, r), r, "timeout")

edgeDisconnect(s) ==
    IF s.gatewayWs # NoTransport
    THEN [s EXCEPT !.reconnectAttempts = maxReconnectAttempts,
                   !.delay = 0,
                   !.readyState[s.gatewayWs] = closeCalled(@),
                   !.gatewayWs = NoTransport]
    ELSE s

(***************************************************************************)
(* Tasks of the event loop of the frontend service.  An uncaught exception *)
(* ends the process: there is no uncaughtException handler.                *)
(***************************************************************************)
EdgeNow == [edge EXCEPT !.exhaustedLogged = FALSE]

EdgeStep(s) ==
    /\ relay = "edge"
    /\ ~edge.crashed
    /\ ~s.outOfBounds
    /\ edge' = EdgeCollect(s)
    /\ UNCHANGED <<relay, client, emitter, ids, chat, agents, op>>

\* wss.on('connection'): a browser session connects; its handlers are registered.
sessionOnConnection(s) == [s EXCEPT !.sessions = @ + 1]

\* A close handler of a session that takes the gateway relay down with it.
sessionOnCloseDisconnecting(s) == edgeDisconnect(s)

\* ws.on('close') of a browser session: the handler only logs.
sessionOnClose(s) == s

\* ws.on('error') of a browser session: the handler only logs.
sessionOnError(s) == s

SessionConnection ==
    /\ edge.sessions < MaxSessions
    /\ EdgeStep(sessionOnConnection(EdgeNow))

\* The connection of a browser session ends: 'close', after an 'error' when it failed.
SessionClose ==
    /\ edge.sessions > 0
    /\ EdgeStep(sessionOnClose([EdgeNow EXCEPT !.sessions = @ - 1]))

SessionFail ==
    /\ edge.sessions > 0
    /\ EdgeStep(sessionOnClose(sessionOnError([EdgeNow EXCEPT !.sessions = @ - 1])))

\* A browser session's message is proxied (server_clean.js:223).
ProxyMessage ==
    /\ edge.sessions > 0
    /\ edge.calls < MaxRequests
    /\ EdgeStep(proxyMessage(EdgeNow, edge.calls + 1))

EdgeDisconnect ==
    EdgeStep(edgeDisconnect(EdgeNow))

GwOpen(t) ==
    /\ edge.readyState[t] = "CONNECTING"
    /\ EdgeStep(edgeOnOpen([EdgeNow EXCEPT !.readyState[t] = "OPEN"]))

\* The gateway's close frame arrives, or the edge's own close() is under way.
GwClosing(t) ==
    /\ edge.readyState[t] = "OPEN"
    /\ EdgeStep([EdgeNow EXCEPT !.readyState[t] = "CLOSING"])

GwClose(t) ==
    /\ edge.readyState[t] \in {"OPEN", "CLOSING"}
    /\ EdgeStep(edgeOnClose([EdgeNow EXCEPT !.readyState[t] = "CLOSED"]))

\* 'error' followed by 'close' on the same transport.
GwFail(t) ==
    /\ edge.readyState[t] \in Live
    /\ EdgeStep(edgeOnClose(edgeOnError([EdgeNow EXCEPT !.readyState[t] = "CLOSED"])))

\* A message arrives on transport t: the reply to a transmitted request
\* (frontend_message_id = id), or a message that is no reply (id 0).  Every
\* responseHandler registered on t runs.
GwMessage(t, id) ==
    /\ edge.readyState[t] \in {"OPEN", "CLOSING"}
    /\ id \in Requests => \E i \in 1..Len(edge.transmitted) : edge.transmitted[i] = id
    /\ LET s0 == [EdgeNow EXCEPT !.replied = @ \cup ({id} \cap edge.deferred)] IN
       EdgeStep(emitMessage(s0, {r \in Requests : edge.listener[r] = t}, id))

ResponseTimeout(r) ==
    /\ edge.timeout[r]
    /\ EdgeStep(responseTimeout(EdgeNow, r))

EdgeReconnectTimeout ==
    /\ edge.reconnectTimers > 0
    /\ EdgeStep(edgeReconnectTimeout(EdgeNow))

EdgeNext ==
    \/ SessionConnection
    \/ SessionClose
    \/ SessionFail
    \/ ProxyMessage
    \/ EdgeDisconnect
    \/ \E t \in Gateways : GwOpen(t)
    \/ \E t \in Gateways : GwClosing(t)
    \/ \E t \in Gateways : GwClose(t)
    \/ \E t \in Gateways : GwFail(t)
    \/ \E t \in Gateways, id \in MessageIds : GwMessage(t, id)
    \/ \E r \in Requests : ResponseTimeout(r)
    \/ EdgeReconnectTimeout

(***************************************************************************)
(* Event emitter of the client relay: on / off / emit, and the dispatch of *)
(* inbound messages by ws.onmessage and handleMessage.                     *)
(***************************************************************************)
Handlers == 1..MaxHandlers

\* The events the application subscribes to.
Events == {"chatResponse", "message"}

\* The payload of a message event: the type of the parsed message, or text
\* that JSON.parse rejects.
Types == {"chat_response", "agent_progress", "rag_search_result",
          "system_notification", "error", "other"}
Payloads == Types \cup {"unparsable"}

\* The switch of handleMessage.
EventOf(type) ==
    CASE type = "chat_response" -> "chatResponse"
      [] type = "agent_progress" -> "agentProgress"
      [] type = "rag_search_result" -> "ragSearchResult"
      [] type = "system_notification" -> "systemNotification"
      [] type = "error" -> "error"
      [] OTHER -> "message"

NoTask == [name |-> "none", event |-> "none", handler |-> 0]

EmitterInit ==
    [ eventHandlers |-> [e \in Events |-> <<>>],  \* the Map; an absent key is an empty list
      task          |-> NoTask,    \* the last call or event: on, off or message
      invoked       |-> <<>>,      \* handlers the last task invoked, in order
      caught        |-> <<>>,      \* those whose exception emit caught and logged
      escaped       |-> FALSE ]    \* an exception reached the catch of ws.onmessage

\* Array.prototype.indexOf, 1-based; 0 when absent.
indexOf(q, h) ==
    IF \E i \in 1..Len(q) : q[i] = h
    THEN SetMin({i \in 1..Len(q) : q[i] = h})
    ELSE 0

\* handlers.splice(index, 1)
splice(q, index) == SubSeq(q, 1, index - 1) \o SubSeq(q, index + 1, Len(q))

on(s, event, handler) ==
    [s EXCEPT !.eventHandlers[event] = Append(@, handler)]

\* off() removing every subscription of the handler.
offAll(s, event, handler) ==
    [s EXCEPT !.eventHandlers[event] = SelectSeq(@, LAMBDA h : h # handler)]

off(s, event, handler) ==
    LET index == indexOf(s.eventHandlers[event], handler) IN
    IF index > 0
    THEN [s EXCEPT !.eventHandlers[event] = splice(@, index)]
    ELSE s

\* forEach over the handlers without the try/catch: the first exception ends
\* the loop and leaves emit.
RECURSIVE forEachNoCatch(_, _, _)
forEachNoCatch(s, handlers, throwing) ==
    IF handlers = <<>> THEN s
    ELSE LET s1 == [s EXCEPT !.invoked = Append(@, Head(handlers))] IN
         IF Head(handlers) \in throwing
         THEN [s1 EXCEPT !.escaped = TRUE]
         ELSE forEachNoCatch(s1, Tail(handlers), throwing)

\* The forEach of emit: handler(data) inside try/catch, for each handler in turn.
RECURSIVE forEach(_, _, _)
forEach(s, handlers, throwing) ==
    IF handlers = <<>> THEN s
    ELSE LET s1 == [s EXCEPT !.invoked = Append(@, Head(handlers))] IN
         IF Head(handlers) \in throwing
         THEN forEach([s1 EXCEPT !.caught = Append(@, Head(handlers))],
                      Tail(handlers), throwing)
         ELSE forEach(s1, Tail(handlers), throwing)

emitNoCatch(s, event, throwing) ==
    IF event \in Events
    THEN forEachNoCatch(s, s.eventHandlers[event], throwing)
    ELSE s

\* emit(event, data); the handlers in throwing throw when called.
emit(s, event, throwing) ==
    IF event \in Events
    THEN forEach(s, s.eventHandlers[event], throwing)
    ELSE s

\* handleMessage() without the default case.
handleMessageKnownOnly(s, type, throwing) ==
    IF EventOf(type) = "message" THEN s ELSE emit(s, EventOf(type), throwing)

handleMessage(s, type, throwing) == emit(s, EventOf(type), throwing)

\* ws.onmessage: JSON.parse and handleMessage inside try/catch.
onmessage(s, payload, throwing) ==
    IF payload = "unparsable" THEN s
    ELSE handleMessage(s, payload, throwing)

EmitterNow == [emitter EXCEPT !.invoked = <<>>, !.caught = <<>>, !.escaped = FALSE]

Subscriptions(s) == Len(s.eventHandlers["chatResponse"]) + Len(s.eventHandlers["message"])

EmitterStep(s, name, event, handler) ==
    /\ relay = "emitter"
    /\ emitter' = [s EXCEPT !.task = [name |-> name, event |-> event, handler |-> handler]]
    /\ UNCHANGED <<relay, client, edge, ids, chat, agents, op>>

\* The application subscribes (chat.js:101, main.js:382).
On(event, handler) ==
    /\ Subscriptions(emitter) < MaxSubscriptions
    /\ EmitterStep(on(EmitterNow, event, handler), "on", event, handler)

Off(event, handler) ==
    EmitterStep(off(EmitterNow, event, handler), "off", event, handler)

\* A message event of the transport; the handlers in throwing throw.
WsMessage(payload, throwing) ==
    EmitterStep(onmessage(EmitterNow, payload, throwing), "message",
                IF payload \in Types THEN EventOf(payload) ELSE "none", 0)

EmitterNext ==
    \/ \E event \in Events, handler \in Handlers : On(event, handler)
    \/ \E event \in Events, handler \in Handlers : Off(event, handler)
    \/ \E payload \in Payloads, throwing \in SUBSET Handlers : WsMessage(payload, throwing)

(***************************************************************************)
(* The message ids of the edge relay.  proxyMessage() stamps each request  *)
(* with Date.now() + '_' + Math.random().toString(36).substr(2, 9); the    *)
(* clock and the random number are inputs of the call.  The requests sent  *)
(* on the open connection wait for their reply, each with its id.          *)
(***************************************************************************)
Clock == 0..MaxClock
Randoms == 1..MaxRandom

IdsInit ==
    [ now     |-> 0,       \* Date.now()
      pending |-> <<>> ]   \* messageId of the requests waiting for a reply, oldest first

\* Date.now() + '_' + Math.random()...: the two parts, kept apart by the '_'.
messageId(now, random) == <<now, random>>

\* proxyMessage() on the open connection: lines 101-121.
stamp(s, random) == [s EXCEPT !.pending = Append(@, messageId(s.now, random))]

\* resolve() of the i-th waiting request, by its reply or by its timer.
settle(s, i) == [s EXCEPT !.pending = SubSeq(@, 1, i - 1) \o SubSeq(@, i + 1, Len(@))]

IdsStep(s) ==
    /\ relay = "ids"
    /\ ids' = s
    /\ UNCHANGED <<relay, client, emitter, edge, chat, agents, op>>

\* A millisecond passes.
Tick ==
    /\ ids.now < MaxClock
    /\ IdsStep([ids EXCEPT !.now = @ + 1])

Stamp(random) ==
    /\ Len(ids.pending) < MaxPending
    /\ IdsStep(stamp(ids, random))

Settle(i) ==
    /\ i <= Len(ids.pending)
    /\ IdsStep(settle(ids, i))

IdsNext ==
    \/ Tick
    \/ \E random \in Randoms : Stamp(random)
    \/ \E i \in 1..MaxPending : Settle(i)

(***************************************************************************)
(* The chat of the browser (ChatManager).  sendMessage() puts the chat in  *)
(* the waiting state and hands the message to the WebSocket connection if  *)
(* it is open, to the HTTP API otherwise.  The frontend service answers on *)
(* the connection the message came on, so a reply that is due is lost with *)
(* the connection.  Of the events of the connection the chat subscribes to *)
(* 'chatResponse' and 'error' only.                                        *)
(***************************************************************************)
ReplyTypes == {"chat_response", "error"}
HttpOutcomes == {"success", "failure", "throw"}

ChatInit ==
    [ isWaitingForResponse |-> FALSE,
      connected            |-> FALSE,    \* AIBox.modules.websocket.isConnected()
      request              |-> "none",   \* where the reply awaited is due: "ws" on the
                                         \* open connection, "http" from the API call,
                                         \* "lost" once that connection has closed
      calls                |-> 0,        \* sendMessage() calls
      messages             |-> 0 ]       \* user messages added to the chat

setWaitingState(s, waiting) == [s EXCEPT !.isWaitingForResponse = waiting]

handleChatResponse(s) == setWaitingState(s, FALSE)

handleChatError(s) == setWaitingState(s, FALSE)

\* sendMessage() with a message typed in, up to its await.
sendMessage(s) ==
    LET s0 == [s EXCEPT !.calls = @ + 1]
        s1 == setWaitingState([s0 EXCEPT !.messages = @ + 1], TRUE)
    IN  IF s.isWaitingForResponse THEN s0
        ELSE IF s.connected THEN [s1 EXCEPT !.request = "ws"]
        ELSE [s1 EXCEPT !.request = "http"]

\* The rest of sendMessage(), when the promise of the API call settles.
httpSettled(s, outcome) ==
    LET s0 == [s EXCEPT !.request = "none"]
    IN  IF outcome = "success" THEN handleChatResponse(s0) ELSE handleChatError(s0)

\* ws.onmessage with the reply of the frontend service, dispatched to the chat's handler.
chatOnMessage(s, type) ==
    LET s0 == [s EXCEPT !.request = "none"]
    IN  IF type = "chat_response" THEN handleChatResponse(s0) ELSE handleChatError(s0)

\* ws.onclose: 'disconnected' is emitted, which the chat does not subscribe to.
chatOnClose(s) ==
    [s EXCEPT !.connected = FALSE, !.request = IF @ = "ws" THEN "lost" ELSE @]

chatOnOpen(s) == [s EXCEPT !.connected = TRUE]

ChatStep(s) ==
    /\ relay = "chat"
    /\ chat' = s
    /\ UNCHANGED <<relay, client, emitter, edge, ids, agents, op>>

SendMessage ==
    /\ chat.calls < MaxChats
    /\ ChatStep(sendMessage(chat))

HttpSettle(outcome) ==
    /\ chat.request = "http"
    /\ ChatStep(httpSettled(chat, outcome))

ChatMessage(type) ==
    /\ chat.connected
    /\ chat.request = "ws"
    /\ ChatStep(chatOnMessage(chat, type))

ChatClose ==
    /\ chat.connected
    /\ ChatStep(chatOnClose(chat))

ChatOpen ==
    /\ ~chat.connected
    /\ ChatStep(chatOnOpen(chat))

ChatReplies == \E type \in ReplyTypes : ChatMessage(type)

ChatSettles == \E outcome \in HttpOutcomes : HttpSettle(outcome)

ChatNext ==
    \/ SendMessage
    \/ ChatReplies
    \/ ChatSettles
    \/ ChatClose
    \/ ChatOpen

(***************************************************************************)
(* The agent tasks of the browser (AgentsManager).  executeAgentTask()     *)
(* enters a task object in the runningTasks map under an id made of        *)
(* Date.now() and Math.random(), and awaits the API call; the handlers of  *)
(* its outcome and cancelTask() move the object to the taskHistory array.  *)
(* Task objects are numbered by their creation.                            *)
(***************************************************************************)
Tasks == 1..MaxTasks
TaskIds == Clock \X Randoms
NoEntry == 0
NoTaskId == <<>>
TerminalStatuses == {"completed", "error", "cancelled"}
ApiOutcomes == {"success", "failure", "throw", "success_display_throws"}

AgentsInit ==
    [ now          |-> 0,                                \* Date.now()
      created      |-> 0,                                \* task objects created
      runningTasks |-> [id \in TaskIds |-> NoEntry],     \* the Map: task object by id
      taskHistory  |-> <<>>,
      status       |-> [n \in Tasks |-> "none"],         \* task.status
      awaited      |-> [n \in Tasks |-> NoTaskId] ]      \* the taskId of the call whose
                                                         \* API request is under way

generateTaskId(now, random) == <<now, random>>

\* executeAgentTask() with an agent selected and a task typed in, up to its await.
executeAgentTask(s, random) ==
    LET taskId == generateTaskId(s.now, random)
        n == s.created + 1
    IN  [s EXCEPT !.created = n,
                  !.runningTasks[taskId] = n,
                  !.status[n] = "running",
                  !.awaited[n] = taskId]

handleTaskSuccess(s, taskId) ==
    LET task == s.runningTasks[taskId]
    IN  IF task = NoEntry THEN s
        ELSE [s EXCEPT !.status[task] = "completed",
                       !.taskHistory = Append(@, task),
                       !.runningTasks[taskId] = NoEntry]

handleTaskError(s, taskId) ==
    LET task == s.runningTasks[taskId]
    IN  IF task = NoEntry THEN s
        ELSE [s EXCEPT !.status[task] = "error",
                       !.taskHistory = Append(@, task),
                       !.runningTasks[taskId] = NoEntry]

\* The rest of executeAgentTask(), when the promise of the API call settles.  The
\* display of the result can throw inside the try: the catch then calls the error
\* handler with the same id.
apiSettled(s, n, outcome) ==
    LET taskId == s.awaited[n]
        s0 == [s EXCEPT !.awaited[n] = NoTaskId]
    IN  CASE outcome = "success" -> handleTaskSuccess(s0, taskId)
          [] outcome = "success_display_throws" ->
                handleTaskError(handleTaskSuccess(s0, taskId), taskId)
          [] OTHER -> handleTaskError(s0, taskId)

\* cancelTask() leaving the entry in the map.
cancelTaskKeeping(s, taskId, confirmed) ==
    LET task == s.runningTasks[taskId]
    IN  IF task = NoEntry \/ ~confirmed THEN s
        ELSE [s EXCEPT !.status[task] = "cancelled",
                       !.taskHistory = Append(@, task)]

cancelTask(s, taskId, confirmed) ==
    LET task == s.runningTasks[taskId]
    IN  IF task = NoEntry \/ ~confirmed THEN s
        ELSE [s EXCEPT !.status[task] = "cancelled",
                       !.taskHistory = Append(@, task),
                       !.runningTasks[taskId] = NoEntry]

AgentsStep(s) ==
    /\ relay = "agents"
    /\ agents' = s
    /\ UNCHANGED <<relay, client, emitter, edge, ids, chat, op>>

\* A millisecond passes.
AgentsTick ==
    /\ agents.now < MaxClock
    /\ AgentsStep([agents EXCEPT !.now = @ + 1])

ExecuteAgentTask(random) ==
    /\ agents.created < MaxTasks
    /\ AgentsStep(executeAgentTask(agents, random))

ApiSettle(n, outcome) ==
    /\ agents.awaited[n] # NoTaskId
    /\ AgentsStep(apiSettled(agents, n, outcome))

CancelTask(taskId, confirmed) ==
    /\ agents.runningTasks[taskId] # NoEntry
    /\ AgentsStep(cancelTask(agents, taskId, confirmed))

AgentsNext ==
    \/ AgentsTick
    \/ \E random \in Randoms : ExecuteAgentTask(random)
    \/ \E n \in Tasks, outcome \in ApiOutcomes : ApiSettle(n, outcome)
    \/ \E taskId \in TaskIds, confirmed \in BOOLEAN : CancelTask(taskId, confirmed)

Init ==
    /\ relay \in {"client", "emitter", "edge", "ids", "chat", "agents"}
    /\ client = ClientInit
    /\ emitter = EmitterInit
    /\ edge = EdgeInit
    /\ ids = IdsInit
    /\ chat = ChatInit
    /\ agents = AgentsInit
    /\ op = [name |-> "init", sent |-> 0, created |-> FALSE]

Next == ClientNext \/ EmitterNext \/ EdgeNext \/ IdsNext \/ ChatNext \/ AgentsNext

Spec == Init /\ [][Next]_vars

\* The event loop of the browser runs the handler of a reply that has arrived, the
\* API call settles (its request is aborted after a timeout), and a connection that
\* has closed is opened again.
FairSpec == Spec /\ WF_vars(ChatReplies) /\ WF_vars(ChatSettles) /\ WF_vars(ChatOpen)

TypeOK ==
    /\ relay \in {"client", "emitter", "edge", "ids", "chat", "agents"}
    /\ ids.now \in Clock
    /\ chat.isWaitingForResponse \in BOOLEAN
    /\ agents.now \in Clock /\ agents.created \in 0..MaxTasks
    /\ \A id \in TaskIds : agents.runningTasks[id] \in {NoEntry} \cup Tasks
    /\ \A n \in Tasks : agents.status[n] \in {"none", "running"} \cup TerminalStatuses
    /\ \A n \in Tasks : agents.awaited[n] \in {NoTaskId} \cup TaskIds
    /\ chat.request \in {"none", "ws", "http", "lost"}
    /\ chat.messages <= chat.calls /\ chat.calls \in 0..MaxChats
    /\ Len(ids.pending) <= MaxPending
    /\ \A i \in 1..Len(ids.pending) : ids.pending[i] \in Clock \X Randoms
    /\ \A e \in Events : \A i \in 1..Len(emitter.eventHandlers[e]) : emitter.eventHandlers[e][i] \in Handlers
    /\ Subscriptions(emitter) <= MaxSubscriptions
    /\ client.ws \in {NoTransport} \cup Transports
    /\ \A t \in Transports : client.readyState[t] \in ReadyStates
    /\ client.reconnectAttempts \in 0..MaxAttempts
    /\ client.reconnectTimers \in 0..MaxTimers
    /\ Len(client.carried) = client.sendCalls
    /\ client.delay \in 0..maxReconnectDelay
    /\ edge.delay \in 0..maxReconnectDelay
    /\ edge.gatewayWs \in {NoTransport} \cup Gateways
    /\ \A t \in Gateways : edge.readyState[t] \in ReadyStates
    /\ edge.reconnectAttempts \in 0..maxReconnectAttempts
    /\ edge.reconnectTimers \in 0..MaxTimers
    /\ \A r \in Requests : edge.promise[r] \in {"none", "pending", "queued", "response", "timeout"}
    /\ \A r \in Requests : edge.reply[r] \in MessageIds
    /\ edge.sessions \in 0..MaxSessions

(***************************************************************************)
(* Properties.                                                             *)
(***************************************************************************)
Increasing(q) == \A i, j \in 1..Len(q) : i < j => q[i] < q[j]

\* A flush transmits a prefix of the queue and leaves the rest where it was.
FlushedPrefix(old, new) ==
    \E k \in 0..Len(old.messageQueue) :
        /\ new.transmitted = old.transmitted \o SubSeq(old.messageQueue, 1, k)
        /\ new.messageQueue = SubSeq(old.messageQueue, k + 1, Len(old.messageQueue))

\* Steps of the relays, as the properties name them.
ClientOpened == relay = "client" /\ op'.name = "onopen"
EdgeOpened == \E t \in Gateways : GwOpen(t)
EdgeClosed == \E t \in Gateways : GwClose(t) \/ GwFail(t)
EdgeCreated == Created(edge, edge')
EdgeSent == Len(edge'.transmitted) - Len(edge.transmitted)

\* C1: the messages passed to send() (proxyMessage()) while the connection was
\* not OPEN are queued in call order, and the open of the relay's connection
\* transmits the whole queue in that order: nothing reordered, left out or sent twice.
C1_QueuedSendsTransmittedInCallOrder ==
    [][ /\ (ClientOpened /\ isConnected(client'))
            => /\ Increasing(client.messageQueue)
               /\ client'.transmitted = client.transmitted \o client.messageQueue
               /\ client'.messageQueue = <<>>
        /\ (EdgeOpened /\ edgeIsConnected(edge'))
            => /\ Increasing(edge.messageQueue)
               /\ edge'.transmitted = edge.transmitted \o edge.messageQueue
               /\ edge'.messageQueue = <<>> ]_vars

\* An open that transmitted two messages queued during the outage.
C1_Witness == relay = "client" /\ op.name = "onopen" /\ op.sent >= 2

Resolutions == {"response", "timeout", "shutdown"}

\* C2: every correlated request is resolved exactly once by its response, its
\* timeout or a shutdown failure, and is never left unresolved: once its timer
\* has run, the promise of the request is settled with one of the three.
C2_ResolvedExactlyOnce ==
    \A r \in edge.expired : edge.promise[r] \in Resolutions

\* C3: after disconnect() the relay makes no further connection attempt: no task
\* that runs while the relay is shut down (a timer scheduled earlier, the close
\* event of the disconnect) creates a transport.
C3_NoConnectionAttemptAfterDisconnect ==
    [][ (relay = "client" /\ client.shutdown /\ client'.shutdown) => ~op'.created ]_vars

\* C4: disconnect() resolves every pending correlated request with a shutdown
\* failure in the same step: after a disconnect() no request is still pending.
C4_DisconnectFailsPendingRequests ==
    [][ EdgeDisconnect => \A r \in Requests : edge'.promise[r] # "pending" ]_vars

InQueue(s, r) == \E i \in 1..Len(s.messageQueue) : s.messageQueue[i] = r
WasTransmitted(s, r) == \E i \in 1..Len(s.transmitted) : s.transmitted[i] = r

C6_InterruptedFlushKeepsOrder ==
    [][ /\ ClientOpened => FlushedPrefix(client, client')
        /\ (relay = "client" /\ op'.name = "send" /\ op'.sent = 0)
            => client'.messageQueue = Append(client.messageQueue, client'.sendCalls)
        /\ EdgeOpened => FlushedPrefix(edge, edge')
        /\ (ProxyMessage /\ EdgeSent = 0)
            => edge'.messageQueue = Append(edge.messageQueue, edge'.calls) ]_vars

\* An open whose flush found the relay's connection not OPEN: nothing transmitted,
\* two messages kept.
C6_Witness ==
    /\ relay = "client"
    /\ op.name = "onopen"
    /\ op.sent = 0
    /\ Len(client.messageQueue) >= 2

\* C7: a request that got no reply (its promise is still pending) resolves as a
\* timeout failure when its timer runs.
C7_TimeoutResolvesUnansweredRequest ==
    [][ \A r \in Requests :
            (ResponseTimeout(r) /\ edge.promise[r] = "pending")
                => edge'.promise[r] = "timeout" ]_vars

\* C8: connect() while the relay's connection is CONNECTING or OPEN changes nothing.
C8_ConnectIsIdempotent ==
    [][ (/\ relay = "client"
         /\ op'.name = "connect"
         /\ client.ws # NoTransport
         /\ client.readyState[client.ws] \in {"CONNECTING", "OPEN"})
            => /\ ~op'.created
               /\ client'.ws = client.ws
               /\ client'.messageQueue = client.messageQueue
               /\ client'.reconnectAttempts = client.reconnectAttempts ]_vars

\* C9: once the attempt counter has reached the maximum, a close or an error
\* schedules no reconnect attempt that will connect, and the exhaustion is
\* reported.  Client: the close handler schedules nothing, the timer the error
\* handler starts finds the counter above the maximum, connects nothing and shows
\* the notification.  Edge: scheduleReconnect starts no timer and logs the error.
C9_NoReconnectOnceExhausted ==
    [][ /\ (relay = "client" /\ client.reconnectAttempts >= maxReconnectAttempts
                /\ op'.name \in {"onclose", "onerror"})
            => /\ ~op'.created
               /\ client'.reconnectTimers > client.reconnectTimers
                    => client'.reconnectAttempts > maxReconnectAttempts
        /\ (relay = "client" /\ client.reconnectAttempts > maxReconnectAttempts
                /\ op'.name = "timer")
            => ~op'.created /\ client'.exhaustedNotified
        /\ (edge.reconnectAttempts >= maxReconnectAttempts /\ EdgeClosed)
            => /\ ~EdgeCreated
               /\ edge'.reconnectTimers = edge.reconnectTimers
               /\ edge'.exhaustedLogged ]_vars

\* The counter went over the maximum through failed attempts alone (no
\* disconnect() set it), and the timer reported the exhaustion.
C9_Witness ==
    /\ relay = "client"
    /\ ~client.forced
    /\ client.reconnectAttempts > maxReconnectAttempts
    /\ op.name = "timer"
    /\ client.exhaustedNotified

Owners == [Requests -> Sessions]

\* The gateway reply that resolved request r: it is sent to the session that made r.
SentReply(r) == edge.reply[r]

Registered(s, event) == IF event \in Events THEN s.eventHandlers[event] ELSE <<>>

Dispatched == relay = "emitter" /\ emitter'.task.name = "message"

\* A message whose id matches no pending request arrives on the edge.
Unmatched(t, id) == GwMessage(t, id) /\ (id \in Requests => edge.promise[id] # "pending")

\* C12 as stated: an inbound message whose id matches no pending request resolves
\* no request, raises no error and reaches no caller and no type handler.  The
\* client relay has no pending requests: none of its inbound messages matches one.
C12_UnmatchedMessageDropped ==
    [][ /\ \A t \in Gateways, id \in MessageIds :
                Unmatched(t, id) => edge'.promise = edge.promise /\ ~edge'.crashed
        /\ Dispatched => emitter'.invoked = <<>> /\ ~emitter'.escaped ]_vars

\* C12, amended: on the edge a message whose id matches no pending request
\* resolves no request, reaches no caller and raises no uncaught error; on the
\* client every inbound message is dispatched by its type: the handlers
\* registered for the event of the type (for 'message', when the type is
\* unknown) are invoked, and no exception leaves the dispatch.  The edge part is
\* stated by its contrapositive: a step that resolves a request or raises an
\* uncaught error is not the arrival of an unmatched message.
C12_UnmatchedMessageResolvesNothing ==
    [][ /\ edge'.promise # edge.promise \/ edge'.crashed
            => \A t \in Gateways, id \in MessageIds : ~Unmatched(t, id)
        /\ Dispatched
            => /\ emitter'.invoked = Registered(emitter, emitter'.task.event)
               /\ ~emitter'.escaped ]_vars

\* A message of unknown type was delivered to a handler subscribed to 'message'.
C12_Witness ==
    /\ relay = "emitter"
    /\ emitter.task.name = "message"
    /\ emitter.task.event = "message"
    /\ emitter.invoked # <<>>

Range(q) == {q[i] : i \in 1..Len(q)}

\* C15: when handlers throw during a dispatch, each exception is caught by emit:
\* every handler registered for the event is invoked all the same, in order, the
\* exceptions caught are those of the throwing handlers, and none reaches the
\* catch of ws.onmessage.
C15_ThrowingHandlerIsContained ==
    [][ Dispatched =>
            \A payload \in Types, throwing \in SUBSET Handlers :
                (/\ WsMessage(payload, throwing)
                 /\ throwing \cap Range(Registered(emitter, EventOf(payload))) # {})
                    => /\ emitter'.invoked = Registered(emitter, EventOf(payload))
                       /\ emitter'.caught = SelectSeq(emitter'.invoked, LAMBDA h : h \in throwing)
                       /\ emitter'.caught # <<>>
                       /\ ~emitter'.escaped ]_vars

\* The first handler threw and the one subscribed after it was invoked.
C15_Witness ==
    /\ relay = "emitter"
    /\ emitter.task.name = "message"
    /\ Len(emitter.invoked) >= 2
    /\ emitter.caught # <<>>
    /\ emitter.caught[1] = emitter.invoked[1]
    /\ emitter.invoked[2] # emitter.invoked[1]

\* The subscriptions of an event other than those of handler h, in order.
Others(q, h) == SelectSeq(q, LAMBDA x : x # h)
Count(q, h) == Cardinality({i \in 1..Len(q) : q[i] = h})
Without(q, i) == [j \in 1..(Len(q) - 1) |-> IF j < i THEN q[j] ELSE q[j + 1]]

\* on() subscribes at the end of the list and a dispatch invokes the list in order.
SubscriptionOrder ==
    /\ \A e \in Events, h \in Handlers :
            On(e, h) => emitter'.eventHandlers[e] = Append(emitter.eventHandlers[e], h)
    /\ Dispatched => emitter'.invoked = Registered(emitter, emitter'.task.event)

\* C16 as stated: handlers are invoked in the order of their subscription, and
\* after off(event, h) the handler h is not invoked any more while the others
\* keep their order.
C16_OffRemovesHandler ==
    [][ /\ SubscriptionOrder
        /\ \A e \in Events, h \in Handlers :
                Off(e, h) => /\ h \notin Range(emitter'.eventHandlers[e])
                             /\ Others(emitter'.eventHandlers[e], h)
                                    = Others(emitter.eventHandlers[e], h) ]_vars

\* C16, amended: handlers are invoked in the order of their subscription, and
\* off(event, h) removes the earliest subscription of h: a handler subscribed n
\* times is still invoked n - 1 times, at the places of its later subscriptions,
\* and the other handlers keep their order.
C16_OffRemovesEarliestSubscription ==
    [][ relay = "emitter" =>
        /\ SubscriptionOrder
        /\ \A e \in Events, h \in Handlers :
                Off(e, h) =>
                    LET old == emitter.eventHandlers[e]
                        new == emitter'.eventHandlers[e]
                    IN /\ Others(new, h) = Others(old, h)
                       /\ Count(old, h) = 0 => new = old
                       /\ Count(old, h) > 0 =>
                            \E i \in 1..Len(old) :
                                /\ old[i] = h
                                /\ \A j \in 1..(i - 1) : old[j] # h
                                /\ new = Without(old, i) ]_vars

\* off() of a handler subscribed twice, next to another handler: it is still
\* subscribed once.
C16_Witness ==
    /\ relay = "emitter"
    /\ emitter.task.name = "off"
    /\ emitter.task.handler \in Range(emitter.eventHandlers[emitter.task.event])
    /\ Len(emitter.eventHandlers[emitter.task.event]) >= 2

(***************************************************************************)
(* send() and proxyMessage() in each state of the connection.              *)
(***************************************************************************)
\* The relay's connection is CONNECTING.
Connecting(s) == s.ws # NoTransport /\ s.readyState[s.ws] = "CONNECTING"

EdgeConnecting(s) == s.gatewayWs # NoTransport /\ s.readyState[s.gatewayWs] = "CONNECTING"

\* C13: send() on an OPEN connection transmits the message at once and leaves the
\* queue alone; in any other state it transmits nothing, appends that one message
\* at the tail of the queue, and starts a connection attempt only when the
\* connection is idle or closed: not while it is CONNECTING and not after
\* disconnect().  The same for proxyMessage() on the edge.
C13_SendTransmitsOrQueues ==
    [][ /\ (relay = "client" /\ op'.name = "send")
            => LET m == client.sendCalls + 1 IN
               IF isConnected(client)
               THEN /\ client'.transmitted = Append(client.transmitted, m)
                    /\ client'.messageQueue = client.messageQueue
                    /\ ~op'.created
               ELSE /\ client'.transmitted = client.transmitted
                    /\ client'.messageQueue = Append(client.messageQueue, m)
                    /\ op'.created => ~Connecting(client) /\ ~client.shutdown
        /\ ProxyMessage
            => LET r == edge.calls + 1 IN
               IF edgeIsConnected(edge)
               THEN /\ edge'.transmitted = Append(edge.transmitted, r)
                    /\ edge'.messageQueue = edge.messageQueue
                    /\ ~EdgeCreated
               ELSE /\ edge'.transmitted = edge.transmitted
                    /\ edge'.messageQueue = Append(edge.messageQueue, r)
                    /\ EdgeCreated => ~EdgeConnecting(edge) ]_vars

\* C14: no sequence of operations and events of a relay raises an unhandled
\* error: no task of the edge process ends in an uncaught exception.
C14_NoUnhandledError == ~edge.crashed

(***************************************************************************)
(* The two hops of the edge process.                                       *)
(***************************************************************************)
\* The relay to the gateway: connection, queue, attempt counter and timers.
GatewayHop(s) ==
    <<s.gatewayWs, s.readyState, s.isConnecting, s.messageQueue,
      s.reconnectAttempts, s.reconnectTimers>>

\* C17: the two hops fail independently: a close or an error of the gateway
\* connection closes no browser session, and the close (or failure) of a browser
\* session changes neither the connection, the queue nor the attempt counter of
\* the gateway relay.  The first part is stated by its contrapositive: a step
\* that changes the number of sessions is no close and no error of the gateway
\* connection.
C17_HopsFailIndependently ==
    [][ /\ edge'.sessions # edge.sessions
            => \A t \in Gateways : ~(GwClose(t) \/ GwFail(t))
        /\ (SessionClose \/ SessionFail)
            => /\ edge'.sessions = edge.sessions - 1
               /\ GatewayHop(edge') = GatewayHop(edge) ]_vars

\* The session whose request is in flight has closed and the gateway connection
\* is still open.
C17_Witness ==
    /\ relay = "edge"
    /\ edge.sessions = 0
    /\ edge.calls = 2
    /\ edge.promise[2] = "pending"
    /\ edgeIsConnected(edge)

(***************************************************************************)
(* Reconnect scheduling and ownership of the transport.                    *)
(***************************************************************************)
\* C18: a failure of the connection that disconnect() did not cause schedules
\* exactly one reconnect attempt and adds exactly one to the attempt counter, and
\* at no time two reconnect timers of one relay are pending, also when the
\* transport reports an error and a close for the same failure.
C18_OneReconnectPerFailure ==
    [][ /\ client'.reconnectTimers <= 1
        /\ edge'.reconnectTimers <= 1
        /\ \A t \in Transports :
                (/\ WsFail(t)
                 /\ t = client.ws
                 /\ client.reconnectAttempts < maxReconnectAttempts)
                    => /\ client'.reconnectTimers = client.reconnectTimers + 1
                       /\ client'.reconnectAttempts = client.reconnectAttempts + 1
        /\ \A t \in Gateways :
                (/\ GwFail(t)
                 /\ t = edge.gatewayWs
                 /\ edge.reconnectAttempts < maxReconnectAttempts)
                    => /\ edge'.reconnectTimers = edge.reconnectTimers + 1
                       /\ edge'.reconnectAttempts = edge.reconnectAttempts + 1 ]_vars

\* The transports of a relay that are CONNECTING or OPEN.
LiveTransports(s) == {t \in DOMAIN s.readyState : s.readyState[t] \in {"CONNECTING", "OPEN"}}

\* C19: at every moment at most one transport created by a relay is CONNECTING
\* or OPEN.
C19_AtMostOneLiveTransport ==
    /\ Cardinality(LiveTransports(client)) <= 1
    /\ Cardinality(LiveTransports(edge)) <= 1

\* C20: every close or error of the relay's transport that disconnect() did not
\* cause, while attempts remain, is followed by a new connection attempt once the
\* reconnect timer has fired, whatever close code the remote side sent.  An
\* attempt after a close is made by a reconnect timer only, so the close has to
\* start one, and the timer, when it runs with the relay neither connecting nor
\* connected and the counter within the maximum, has to create a transport.
C20_CloseIsFollowedByAttempt ==
    [][ /\ \A t \in Transports, code \in CloseCodes.clean :
                (/\ WsClose(t, code)
                 /\ t = client.ws
                 /\ client.reconnectAttempts < maxReconnectAttempts)
                    => client'.reconnectTimers > client.reconnectTimers
        /\ \A t \in Transports :
                (/\ WsFail(t)
                 /\ t = client.ws
                 /\ client.reconnectAttempts < maxReconnectAttempts)
                    => client'.reconnectTimers > client.reconnectTimers
        /\ \A t \in Gateways :
                (/\ GwClose(t) \/ GwFail(t)
                 /\ t = edge.gatewayWs
                 /\ edge.reconnectAttempts < maxReconnectAttempts)
                    => edge'.reconnectTimers > edge.reconnectTimers
        /\ (/\ ReconnectTimeout
             /\ client.reconnectAttempts <= maxReconnectAttempts
             /\ ~client.isConnecting
             /\ ~isConnected(client))
                => op'.created
        /\ (/\ EdgeReconnectTimeout
             /\ ~edge.isConnecting
             /\ ~edgeIsConnected(edge))
                => EdgeCreated ]_vars

(***************************************************************************)
(* The open handler, transmission order and the attempt counter.           *)
(***************************************************************************)
\* C21: every open of a transport resets the attempt counter to 0 and flushes the
\* queue once: a prefix of the queue is transmitted, each message once, the rest
\* stays; and when the relay's connection is OPEN the queue is empty when the
\* handler returns.
C21_OpenResetsCounterAndFlushesOnce ==
    [][ /\ ClientOpened
            => /\ client'.reconnectAttempts = 0
               /\ FlushedPrefix(client, client')
               /\ isConnected(client') => client'.messageQueue = <<>>
        /\ EdgeOpened
            => /\ edge'.reconnectAttempts = 0
               /\ FlushedPrefix(edge, edge')
               /\ edgeIsConnected(edge') => edge'.messageQueue = <<>> ]_vars

\* A reconnect after a failure opened: the counter is back at 0 while a timer of
\* the failure is still pending, and the queued message was transmitted.
C21_Witness ==
    /\ relay = "client"
    /\ op.name = "onopen"
    /\ op.sent >= 1
    /\ client.messageQueue = <<>>
    /\ client.reconnectAttempts = 0
    /\ client.reconnectTimers > 0

\* C22: per relay, transmission order is call order over all sends, queued or
\* direct: the messages handed to the transport so far are in call order, and
\* every message still queued was passed to send() after all of them and will
\* be transmitted in call order too.
C22_TransmissionOrderIsCallOrder ==
    /\ Increasing(client.transmitted \o client.messageQueue)
    /\ Increasing(edge.transmitted \o edge.messageQueue)

\* The first request was queued and flushed by the open, the second was sent
\* directly after it.
C22_Witness ==
    /\ relay = "edge"
    /\ edge.transmitted = <<1, 2>>
    /\ edge.deferred = {1}

\* min(5000 * n, 30000), written out.
ClaimedDelay(n) == IF n >= 6 THEN 30000 ELSE 5000 * n

\* C23: the delay of the reconnect timer for attempt n (n >= 1, the counter
\* after the increment) is min(5000 * n, 30000) ms: linear in n up to the cap,
\* never above 30000.
C23_ReconnectDelayIsCappedLinear ==
    /\ client.delay # 0
        => /\ client.reconnectAttempts >= 1
           /\ client.delay = ClaimedDelay(client.reconnectAttempts)
           /\ client.delay <= 30000
    /\ edge.delay # 0
        => /\ edge.reconnectAttempts >= 1
           /\ edge.delay = ClaimedDelay(edge.reconnectAttempts)
           /\ edge.delay <= 30000

\* A timer was started for the eighth attempt: the cap applies.
C23_Witness ==
    /\ relay = "edge"
    /\ edge.reconnectAttempts = 8
    /\ edge.delay = 30000

(***************************************************************************)
(* Identity: message ids and the session id.                               *)
(***************************************************************************)
\* C24: the message id stamped on a request is unique among the requests of the
\* relay that are pending at that moment: no two waiting requests carry the
\* same id.
C24_PendingMessageIdsAreUnique ==
    \A i, j \in 1..Len(ids.pending) :
        i # j => ids.pending[i] # ids.pending[j]

\* C25: the session id of the relay is the one generated at construction, and
\* every message handed to a transport, directly or from the queue, before and
\* after reconnects, carries it.
C25_SessionIdIsStable ==
    /\ client.sessionId = generateSessionId
    /\ \A i \in 1..Len(client.transmitted) :
            client.carried[client.transmitted[i]] = generateSessionId
    /\ \A i \in 1..Len(client.messageQueue) :
            client.carried[client.messageQueue[i]] = generateSessionId

\* The first message went out on one connection; the second was queued and went
\* out when a later connection opened, with reconnect timers started in between.
C25_Witness ==
    /\ relay = "client"
    /\ op.name = "onopen"
    /\ op.sent = 1
    /\ client.transmitted = <<1, 2>>
    /\ client.reconnectTimers > 0

\* C26: the attempt counter never exceeds the configured maximum: in every
\* reachable state 0 <= reconnectAttempts <= maxReconnectAttempts, on both relays.
C26_CounterWithinMaximum ==
    /\ client.reconnectAttempts \in 0..maxReconnectAttempts
    /\ edge.reconnectAttempts \in 0..maxReconnectAttempts

\* C27: no accepted message is lost or duplicated inside a relay: at every moment
\* each message passed to send() (proxyMessage()) has been handed to a transport
\* exactly once or is in the queue exactly once, never both and never neither,
\* and nothing else is in either.
C27_NoLossNoDuplication ==
    /\ \A m \in 1..client.sendCalls :
            Count(client.transmitted, m) + Count(client.messageQueue, m) = 1
    /\ Len(client.transmitted) + Len(client.messageQueue) = client.sendCalls
    /\ \A r \in 1..edge.calls :
            Count(edge.transmitted, r) + Count(edge.messageQueue, r) = 1
    /\ Len(edge.transmitted) + Len(edge.messageQueue) = edge.calls

\* A flush that found the relay's connection not OPEN put the message it had
\* taken back: one message has been transmitted, the other is still queued.
C27_Witness ==
    /\ relay = "client"
    /\ op.name = "onopen"
    /\ op.sent = 0
    /\ client.transmitted = <<1>>
    /\ client.messageQueue = <<2>>

(***************************************************************************)
(* C28: the chat never stays blocked: once sendMessage() has put it in the *)
(* waiting state, the waiting state is eventually cleared by a response or *)
(* an error, also when the connection drops after the message was sent     *)
(* over it.                                                                *)
(***************************************************************************)
C28_WaitingIsEventuallyCleared ==
    chat.isWaitingForResponse ~> ~chat.isWaitingForResponse

(***************************************************************************)
(* C29: every agent task gets exactly one terminal status (completed,      *)
(* error or cancelled): its object is moved from runningTasks to           *)
(* taskHistory at most once and is never in both, and a result or error    *)
(* that arrives after cancelTask() neither changes its status nor adds a   *)
(* second history entry.                                                   *)
(***************************************************************************)
Running(s, n) == \E id \in TaskIds : s.runningTasks[id] = n

Moved(s, n) == Count(s.taskHistory, n)

OneStatusPerTask(s) ==
    \A n \in Tasks :
        /\ Moved(s, n) <= 1
        /\ ~(Running(s, n) /\ Moved(s, n) > 0)
        /\ Running(s, n) => s.status[n] = "running"
        /\ Moved(s, n) = 1 <=> s.status[n] \in TerminalStatuses

TerminalIsFinal(old, new) ==
    /\ Len(new.taskHistory) >= Len(old.taskHistory)
    /\ SubSeq(new.taskHistory, 1, Len(old.taskHistory)) = old.taskHistory
    /\ \A n \in Tasks :
           old.status[n] \in TerminalStatuses => new.status[n] = old.status[n]

C29_OneTerminalStatusPerTask ==
    /\ OneStatusPerTask(agents)
    /\ [][agents' # agents =>
            OneStatusPerTask(agents') /\ TerminalIsFinal(agents, agents')]_vars

\* A task was cancelled, the result of its API call arrived afterwards, and another
\* task has completed.
C29_Witness ==
    /\ relay = "agents"
    /\ \E n \in Tasks :
           /\ agents.status[n] = "cancelled"
           /\ agents.awaited[n] = NoTaskId
           /\ Moved(agents, n) = 1
           /\ \E m \in Tasks \ {n} : agents.status[m] = "completed"
====
